---- MODULE Spec2Model ----
(***************************************************************************)
(* Canvas side panel: the browse navigator and the upload tracker of the   *)
(* CanvasPanel component, and the Canvas routes of the API server          *)
(* (GET /courses and POST /files/:fileId/download-and-upload).             *)
(*                                                                         *)
(* The component is one React function component.  Its useState cells are  *)
(* the variables below under their own names.  An event handler runs to    *)
(* its first await in one step (React commits the batched updates before   *)
(* the next event is dispatched), and the code after an await runs in one  *)
(* step when the awaited promise settles.  Whether React commits the       *)
(* updates of such a continuation together or one by one depends on the    *)
(* root the application is mounted with, which the component does not      *)
(* choose.  The commits in between are modelled where they differ in what  *)
(* the panel renders: in the success tail of handleFileUpload.  (In the    *)
(* browse continuations setLoading(false) comes last, so the spinner is    *)
(* rendered throughout.)                                                   *)
(***************************************************************************)
EXTENDS Integers, Sequences, FiniteSets, TLC

\* ------------------------------------------------------------------ bounds
NumCourses == 1
NumModules == 2
MaxUpstream == 25
MaxUnavailable == 3

\* ------------------------------------------------------- program constants
\* .slice(0, 20)
CourseLimit == 20

\* ---------------------------------------------------------------- universe
CourseIds == 1..NumCourses
ModuleIds == 1..NumModules
\* the content_ids of the File items of the catalog
Files == {1, 2}

\* null, and a non-null value v, of a nullable cell
Null == << >>
Some(v) == << v >>

\* The filename the LMS gives in each file's metadata.  Files of different
\* courses or folders may carry one name, and the two files of the catalog
\* do (files of different names do not meet in the staging directory).
FileCatalogs == { [f \in Files |-> "syllabus.pdf"] }

\* the authenticated caller of the panel's requests (req.user.id)
UserId == "u1"

VARIABLES
    \* ---- CanvasPanel state (useState cells)
    courses,          \* Course[]: sequence of course records
    modules,          \* Module[]: set of module ids shown
    items,            \* ModuleItem[]: set of [type, content_id]
    loading,
    error,            \* Null or Some(message)
    currentView,
    selectedCourse,   \* Null or Some(course id)
    selectedModule,   \* Null or Some(module id)
    uploadingFiles,
    uploadedFiles,
    \* ---- requests of the panel that are awaiting their response
    browse,           \* set of browse URLs being fetched
    \* ---- history: the request whose response filled modules / items
    modulesFor,
    itemsFor,
    \* ---- server
    canvasApiKey,     \* process.env.CANVAS_API_KEY is set
    canvasBaseUrl,    \* process.env.CANVAS_BASE_URL is set
    fileName,         \* the LMS's file metadata: file id -> filename
    relays,           \* [Files -> Seq(relay call)]: download-and-upload calls
    staging,          \* the uploads/temp tree: path -> owner of the content
    \* ---- GET /courses handler on a long upstream list
    upstream,
    coursesPc,
    coursesRes,
    \* ---- the other GET handlers, each on one request
    gets              \* [GetEndpoints -> [pc, res]]

navVars == << courses, modules, items, loading, error, currentView,
              selectedCourse, selectedModule, browse, modulesFor, itemsFor >>
upVars == << uploadingFiles, uploadedFiles >>
srvVars == << relays, staging >>
listVars == << upstream, coursesPc, coursesRes, gets >>
envVars == << canvasApiKey, canvasBaseUrl, fileName >>
vars == << navVars, upVars, srvVars, envVars, listVars >>

\* (faulty variant: only the key is checked)
configured_KeyOnly == canvasApiKey

\* the negation of every handler's first check,
\* if (!canvasApiKey || !canvasBaseUrl) return res.status(500)...
configured == canvasApiKey /\ canvasBaseUrl

\* the GET handlers besides /courses
GetEndpoints == {"modules", "items", "file"}
NoGets == [e \in GetEndpoints |-> [pc |-> "off", res |-> Null]]

\* ------------------------------------------------------- GET /courses body
\* an upstream course; name, course_code and enrollment_term_id are copied
\* through like id, term is the include[]=term field the mapping drops
UpstreamCourse(i, ws) == [id |-> i, workflow_state |-> ws, term |-> "t"]

\* .map(course => ({id, ..., workflow_state, ...}))
FormatCourse(c) == [id |-> c.id, workflow_state |-> c.workflow_state]

IsAvailable(c) == c.workflow_state = "available"

Min(a, b) == IF a < b THEN a ELSE b

\* .slice(0, n)
Slice(s, n) == SubSeq(s, 1, Min(n, Len(s)))

\* .map(...)
FormatAll(cs) == [i \in 1..Len(cs) |-> FormatCourse(cs[i])]

\* (faulty variant: the slice is missing)
formattedCourses_NoLimit(cs) ==
    FormatAll(SelectSeq(cs, IsAvailable))

\* courses.filter(available).map(format).slice(0, 20)
formattedCourses(cs) ==
    Slice(FormatAll(SelectSeq(cs, IsAvailable)), CourseLimit)

\* ------------------------------------------------------------- upstream LMS
\* the course lists the LMS may answer the panel's browse with: the courses
\* of the catalog, the first of them available or not
BrowseCourseLists ==
    { [i \in 1..NumCourses |->
          UpstreamCourse(i, IF i = 1 THEN ws ELSE "available")] :
        ws \in {"available", "unpublished"} }

\* module lists of a course, item lists of a module
ModuleLists == { {}, ModuleIds }
FileItem(f) == [type |-> "File", content_id |-> f]
PageItem == [type |-> "Page", content_id |-> 1]
ItemLists ==
    {{}} \cup { {PageItem} \cup {FileItem(f) : f \in F} : F \in {{1}, Files} }

\* the browse URLs
CoursesUrl == << "courses" >>
ModulesUrl(c) == << "courses", c, "modules" >>
ItemsUrl(c, m) == << "courses", c, "modules", m, "items" >>

\* --------------------------------------------------------------- rendering
\* (faulty variant: the spinner does not replace the lists)
ListShown_WhileLoading == error = Null

\* the spinner and the error view return before anything else is rendered
ListShown == ~loading /\ error = Null

CourseShown(c) ==
    /\ ListShown
    /\ currentView = "courses"
    /\ \E i \in 1..Len(courses) : courses[i].id = c

ModuleShown(m) ==
    /\ ListShown
    /\ currentView = "modules"
    /\ m \in modules


\* ------------------------------------------------------------ upload button
\* (faulty variant: the button is rendered for an uploaded file, too)
UploadButtonShown_AfterUploaded(f) ==
    /\ ListShown
    /\ currentView = "items"
    /\ \E it \in items : it.type = "File" /\ it.content_id = f

\* {isFile && (isUploaded ? <Uploaded/> : <button .../>)}
UploadButtonShown(f) ==
    /\ ListShown
    /\ currentView = "items"
    /\ \E it \in items : it.type = "File" /\ it.content_id = f
    /\ f \notin uploadedFiles

\* (faulty variant: the button is not disabled while the upload runs)
UploadButtonEnabled_NeverDisabled(f) == UploadButtonShown(f)

\* disabled={isUploading}
UploadButtonEnabled(f) == UploadButtonShown(f) /\ f \notin uploadingFiles

\* ------------------------------------------------------------------- Init
\* the state after the first render and its effect: currentView is
\* 'courses', so the effect has called fetchCourses
InitPanel ==
    /\ courses = << >>
    /\ modules = {}
    /\ items = {}
    /\ loading = TRUE
    /\ error = Null
    /\ currentView = "courses"
    /\ selectedCourse = Null
    /\ selectedModule = Null
    /\ uploadingFiles = {}
    /\ uploadedFiles = {}
    /\ browse = {CoursesUrl}
    /\ modulesFor = Null
    /\ itemsFor = Null
    /\ relays = [f \in Files |-> << >>]
    /\ staging = {}

Init ==
    /\ InitPanel
    /\ canvasApiKey \in BOOLEAN
    /\ canvasBaseUrl \in BOOLEAN
    /\ gets = NoGets
    /\ fileName \in FileCatalogs
    /\ upstream = << >>
    /\ coursesPc = "off"
    /\ coursesRes = Null

\* The success tail of a handleFileUpload call is between its two commits.
\* The tail is one synchronous run: no other handler or continuation of the
\* panel runs before it has finished.
Committing ==
    \E f \in Files : \E i \in 1..Len(relays[f]) : relays[f][i].pc = "finally"

\* ------------------------------------------------------- browse: the calls
\* fetchCourses up to its await
fetchCoursesCall ==
    /\ loading' = TRUE
    /\ browse' = browse \cup {CoursesUrl}

\* fetchModules(courseId) up to its await
fetchModulesCall(c) ==
    /\ loading' = TRUE
    /\ browse' = browse \cup {ModulesUrl(c)}

\* (faulty variant: fetchModuleItems without setLoading(true))
fetchModuleItemsCall_NoSpinner(c, m) ==
    /\ loading' = loading
    /\ browse' = browse \cup {ItemsUrl(c, m)}

\* fetchModuleItems(courseId, moduleId) up to its await
fetchModuleItemsCall(c, m) ==
    /\ loading' = TRUE
    /\ browse' = browse \cup {ItemsUrl(c, m)}


\* useEffect(..., [currentView]) after a commit that changed currentView
useEffectCurrentView ==
    IF currentView' # currentView /\ currentView' = "courses"
    THEN fetchCoursesCall
    ELSE UNCHANGED << loading, browse >>

\* --------------------------------------------------- browse: the handlers
handleCourseClick(c) ==
    /\ CourseShown(c)
    /\ ~Committing
    /\ selectedCourse' = Some(c)
    /\ fetchModulesCall(c)
    /\ UNCHANGED << courses, modules, items, error, currentView,
                    selectedModule, modulesFor, itemsFor >>
    /\ UNCHANGED << upVars, srvVars, envVars, listVars >>

handleModuleClick(m) ==
    /\ ModuleShown(m)
    /\ ~Committing
    /\ selectedModule' = Some(m)
    /\ IF selectedCourse # Null
       THEN fetchModuleItemsCall(selectedCourse[1], m)
       ELSE UNCHANGED << loading, browse >>
    /\ UNCHANGED << courses, modules, items, error, currentView,
                    selectedCourse, modulesFor, itemsFor >>
    /\ UNCHANGED << upVars, srvVars, envVars, listVars >>

\* (faulty variant: the items branch clears the course, not the module)
BackFromItems_ClearsCourse ==
    /\ currentView' = "modules"
    /\ selectedCourse' = Null
    /\ UNCHANGED << selectedModule, modules, modulesFor >>

\* (faulty variant: the items branch goes to the course list)
BackFromItems_ToCourses ==
    /\ currentView' = "courses"
    /\ selectedModule' = Null
    /\ selectedCourse' = Null
    /\ UNCHANGED << modules, modulesFor >>

\* (faulty variant: the modules branch keeps the module list)
BackFromModules_KeepsModules ==
    /\ currentView' = "courses"
    /\ selectedCourse' = Null
    /\ UNCHANGED << selectedModule, modules, modulesFor >>

\* the three branches of handleBackClick
BackFromItems ==
    /\ currentView' = "modules"
    /\ selectedModule' = Null
    /\ UNCHANGED << selectedCourse, modules, modulesFor >>

BackFromModules ==
    /\ currentView' = "courses"
    /\ selectedCourse' = Null
    /\ modules' = {}
    /\ modulesFor' = Null
    /\ UNCHANGED selectedModule

BackAtCourses ==
    UNCHANGED << currentView, selectedCourse, selectedModule, modules,
                 modulesFor >>

\* (faulty variant: going back also empties the two upload sets)
handleBackClick_ResetsTracker ==
    /\ ListShown
    /\ ~Committing
    /\ CASE currentView = "items" -> BackFromItems
         [] currentView = "modules" -> BackFromModules
         [] OTHER -> BackAtCourses
    /\ useEffectCurrentView
    /\ uploadingFiles' = {}
    /\ uploadedFiles' = {}
    /\ UNCHANGED << courses, items, error, itemsFor >>
    /\ UNCHANGED << srvVars, envVars, listVars >>


\* The Back button is rendered below the courses level only; the handler
\* itself falls through at 'courses'.
handleBackClick ==
    /\ ListShown
    /\ ~Committing
    /\ CASE currentView = "items" -> BackFromItems
         [] currentView = "modules" -> BackFromModules
         [] OTHER -> BackAtCourses
    /\ useEffectCurrentView
    /\ UNCHANGED << courses, items, error, itemsFor >>
    /\ UNCHANGED << upVars, srvVars, envVars, listVars >>

\* ------------------------------------------- browse: after the await
\* What the awaited fetch of a browse URL can give.  The server answers 500
\* without configuration or when the LMS answers non-2xx; the fetch itself
\* may reject.  "ok" needs the configuration.
BrowseFailures(msg) == {msg}

\* try-block tail, then finally
fetchCoursesThen(list) ==
    /\ CoursesUrl \in browse
    /\ ~Committing
    /\ configured
    /\ courses' = formattedCourses(list)
    /\ loading' = FALSE
    /\ browse' = browse \ {CoursesUrl}
    /\ UNCHANGED << modules, items, error, currentView, selectedCourse,
                    selectedModule, modulesFor, itemsFor >>
    /\ UNCHANGED << upVars, srvVars, envVars, listVars >>

\* catch, then finally
fetchCoursesCatch(msg) ==
    /\ CoursesUrl \in browse
    /\ ~Committing
    /\ error' = Some(msg)
    /\ loading' = FALSE
    /\ browse' = browse \ {CoursesUrl}
    /\ UNCHANGED << courses, modules, items, currentView, selectedCourse,
                    selectedModule, modulesFor, itemsFor >>
    /\ UNCHANGED << upVars, srvVars, envVars, listVars >>

fetchModulesThen(c, list) ==
    /\ ModulesUrl(c) \in browse
    /\ ~Committing
    /\ configured
    /\ modules' = list
    /\ modulesFor' = Some(c)
    /\ currentView' = "modules"
    /\ loading' = FALSE
    /\ browse' = browse \ {ModulesUrl(c)}
    /\ UNCHANGED << courses, items, error, selectedCourse, selectedModule,
                    itemsFor >>
    /\ UNCHANGED << upVars, srvVars, envVars, listVars >>

\* (faulty variant: the catch block shows the module level)
fetchModulesCatch_Advances(c, msg) ==
    /\ ModulesUrl(c) \in browse
    /\ ~Committing
    /\ error' = Some(msg)
    /\ currentView' = "modules"
    /\ loading' = FALSE
    /\ browse' = browse \ {ModulesUrl(c)}
    /\ UNCHANGED << courses, modules, items, selectedCourse,
                    selectedModule, modulesFor, itemsFor >>
    /\ UNCHANGED << upVars, srvVars, envVars, listVars >>

fetchModulesCatch(c, msg) ==
    /\ ModulesUrl(c) \in browse
    /\ ~Committing
    /\ error' = Some(msg)
    /\ loading' = FALSE
    /\ browse' = browse \ {ModulesUrl(c)}
    /\ UNCHANGED << courses, modules, items, currentView, selectedCourse,
                    selectedModule, modulesFor, itemsFor >>
    /\ UNCHANGED << upVars, srvVars, envVars, listVars >>

fetchModuleItemsThen(c, m, list) ==
    /\ ItemsUrl(c, m) \in browse
    /\ ~Committing
    /\ configured
    /\ items' = list
    /\ itemsFor' = Some(<< c, m >>)
    /\ currentView' = "items"
    /\ loading' = FALSE
    /\ browse' = browse \ {ItemsUrl(c, m)}
    /\ UNCHANGED << courses, modules, error, selectedCourse, selectedModule,
                    modulesFor >>
    /\ UNCHANGED << upVars, srvVars, envVars, listVars >>

fetchModuleItemsCatch(c, m, msg) ==
    /\ ItemsUrl(c, m) \in browse
    /\ ~Committing
    /\ error' = Some(msg)
    /\ loading' = FALSE
    /\ browse' = browse \ {ItemsUrl(c, m)}
    /\ UNCHANGED << courses, modules, items, currentView, selectedCourse,
                    selectedModule, modulesFor, itemsFor >>
    /\ UNCHANGED << upVars, srvVars, envVars, listVars >>

\* ------------------------------------------------------------ upload tracker
\* a download-and-upload call, from the panel's fetch to the settling of it
NewRelay ==
    [ pc |-> "sent",          \* sent, awaitMeta, awaitDownload, awaitIngest,
                              \* done, lost, finally
      filename |-> Null,      \* fileData.filename once the metadata is read
      staged |-> FALSE,       \* writeFileSync(tempFilePath) has run
      cleanup |-> "none",     \* none, deleted, failed: unlinkSync(tempFilePath)
      ingested |-> Null,      \* what processFileUpload answered with
      res |-> Null,           \* the response sent: Some([status, body])
      steps |-> << >>,        \* the handler's calls so far, in order:
                              \* metadata, download, stage, ingest, unlink
      responses |-> 0 ]       \* how many responses the request was sent

RemoveAt(s, i) == [j \in 1..(Len(s) - 1) |-> IF j < i THEN s[j] ELSE s[j + 1]]

\* (faulty variant: the request is sent without setUploadingFiles(add))
handleFileUpload_NoSpinner(f) ==
    /\ UploadButtonEnabled(f)
    /\ ~Committing
    /\ relays' = [relays EXCEPT ![f] = Append(@, NewRelay)]
    /\ UNCHANGED << navVars, upVars, staging, envVars, listVars >>

\* setUploadingFiles(prev => new Set(prev).add(fileId)), then the fetch
handleFileUpload(f) ==
    /\ UploadButtonEnabled(f)
    /\ ~Committing
    /\ uploadingFiles' = uploadingFiles \cup {f}
    /\ relays' = [relays EXCEPT ![f] = Append(@, NewRelay)]
    /\ UNCHANGED << navVars, uploadedFiles, staging, envVars, listVars >>

\* the fetch resolved with response.ok
UploadOk(f, i) ==
    /\ i \in 1..Len(relays[f])
    /\ relays[f][i].pc = "done"
    /\ relays[f][i].res # Null
    /\ relays[f][i].res[1].status = 200

\* response.ok, the updates committed one by one: setUploadedFiles(add) and
\* the toast; the finally block has not run yet
handleFileUploadThenAdd(f, i) ==
    /\ UploadOk(f, i)
    /\ ~Committing
    /\ uploadedFiles' = uploadedFiles \cup {f}
    /\ relays' = [relays EXCEPT ![f][i] = [NewRelay EXCEPT !.pc = "finally"]]
    /\ UNCHANGED << navVars, uploadingFiles, staging, envVars, listVars >>

\* finally { setUploadingFiles(delete) } of that tail
handleFileUploadFinally(f, i) ==
    /\ i \in 1..Len(relays[f])
    /\ relays[f][i].pc = "finally"
    /\ uploadingFiles' = uploadingFiles \ {f}
    /\ relays' = [relays EXCEPT ![f] = RemoveAt(@, i)]
    /\ UNCHANGED << navVars, uploadedFiles, staging, envVars, listVars >>

\* response.ok, the updates committed together: setUploadedFiles(add),
\* toast, then finally
handleFileUploadThen(f, i) ==
    /\ UploadOk(f, i)
    /\ ~Committing
    /\ uploadedFiles' = uploadedFiles \cup {f}
    /\ uploadingFiles' = uploadingFiles \ {f}
    /\ relays' = [relays EXCEPT ![f] = RemoveAt(@, i)]
    /\ UNCHANGED << navVars, staging, envVars, listVars >>

\* The fetch settles as a failure: a non-2xx response, or a rejection (the
\* request or the response was lost on the way, see relayLost).
RelayFailed(r) ==
    \/ r.pc = "lost"
    \/ r.pc = "done" /\ r.res # Null /\ r.res[1].status # 200

\* (faulty variant: a failed upload resets the uploaded marks)
handleFileUploadCatch_ClearsDone(f, i) ==
    /\ i \in 1..Len(relays[f])
    /\ ~Committing
    /\ RelayFailed(relays[f][i])
    /\ uploadingFiles' = uploadingFiles \ {f}
    /\ uploadedFiles' = {}
    /\ relays' = [relays EXCEPT ![f] = RemoveAt(@, i)]
    /\ UNCHANGED << navVars, staging, envVars, listVars >>

\* (faulty variant: the finally block marks the file uploaded, too)
handleFileUploadCatch_MarksDone(f, i) ==
    /\ i \in 1..Len(relays[f])
    /\ ~Committing
    /\ RelayFailed(relays[f][i])
    /\ uploadingFiles' = uploadingFiles \ {f}
    /\ uploadedFiles' = uploadedFiles \cup {f}
    /\ relays' = [relays EXCEPT ![f] = RemoveAt(@, i)]
    /\ UNCHANGED << navVars, staging, envVars, listVars >>

\* (faulty variant: the catch block sends the request again)
handleFileUploadCatch_Retries(f, i) ==
    /\ i \in 1..Len(relays[f])
    /\ ~Committing
    /\ RelayFailed(relays[f][i])
    /\ relays' = [relays EXCEPT ![f][i] = NewRelay]
    /\ UNCHANGED << navVars, upVars, staging, envVars, listVars >>

\* (faulty variant: no finally block, the failure path leaves the id in
\* uploadingFiles)
handleFileUploadCatch_KeepsSpinner(f, i) ==
    /\ i \in 1..Len(relays[f])
    /\ ~Committing
    /\ RelayFailed(relays[f][i])
    /\ relays' = [relays EXCEPT ![f] = RemoveAt(@, i)]
    /\ UNCHANGED << navVars, upVars, staging, envVars, listVars >>


\* catch (toast), then finally
handleFileUploadCatch(f, i) ==
    /\ i \in 1..Len(relays[f])
    /\ ~Committing
    /\ RelayFailed(relays[f][i])
    /\ uploadingFiles' = uploadingFiles \ {f}
    /\ relays' = [relays EXCEPT ![f] = RemoveAt(@, i)]
    /\ UNCHANGED << navVars, uploadedFiles, staging, envVars, listVars >>

\* ------------------------------- POST /files/:fileId/download-and-upload
\* path.join(uploads, 'temp', req.user.id, fileData.filename)
tempFilePath(user, name) == << "temp", user, name >>

Exists(path) == \E e \in staging : e.path = path
\* fs.writeFileSync(path, content): creates or overwrites
WriteFile(path, content) ==
    {e \in staging : e.path # path} \cup {[path |-> path, content |-> content]}
\* fs.unlinkSync(path) when it does not throw
Unlink(path) == {e \in staging : e.path # path}

\* fileData, the LMS's metadata of file f, as far as the handler reads it
fileData(f) ==
    [id |-> f, filename |-> fileName[f], display_name |-> "Syllabus"]

\* error.message of what the try block throws
MetaNotOk == "Canvas API error: 404 Not Found"
DownloadNotOk == "File download error: 403 Forbidden"
\* a fetch that rejects (the LMS cannot be reached), of either URL
FetchFailed == "fetch failed"
MetaFailures == {MetaNotOk, FetchFailed}
DownloadFailures == {DownloadNotOk, FetchFailed}
\* whatever processFileUpload throws
IngestFailures == {"ingestion failed"}

\* the responses
ConfigError ==
    [status |-> 500, body |-> [error |-> "Canvas configuration not found"]]
\* the catch block
CatchError(msg) ==
    [status |-> 500,
     body |-> [error |-> "Failed to upload file to LibreChat", details |-> msg]]

\* originalFileInfo, and the message of the overridden res.json
originalFileInfo(f) ==
    [id |-> fileData(f).id, filename |-> fileData(f).filename,
     display_name |-> fileData(f).display_name]
SuccessMessage(f) == << "uploaded successfully", fileData(f).display_name >>

\* (faulty variant: the fields are added only where the data has none of
\* that name)
Enhanced_KeepsData(resp, f) ==
    [resp EXCEPT !.body =
        [k \in DOMAIN resp.body \cup {"originalFile", "message"} |->
            IF k \in DOMAIN resp.body THEN resp.body[k]
            ELSE IF k = "originalFile" THEN originalFileInfo(f)
            ELSE SuccessMessage(f)]]

\* res.json = function (data) { ...data, originalFile, message }, in the
\* call for file f: every answer sent through res.json after the override
Enhanced(resp, f) ==
    [resp EXCEPT !.body =
        [k \in DOMAIN resp.body \cup {"originalFile", "message"} |->
            IF k = "originalFile" THEN originalFileInfo(f)
            ELSE IF k = "message" THEN SuccessMessage(f)
            ELSE resp.body[k]]]

\* processFileUpload's own res.status(200).json(result): the result is
\* opaque, it may or may not have a message of its own
IngestResults ==
    { [status |-> 200, body |-> [file_id |-> "uuid"]],
      [status |-> 200,
       body |-> [file_id |-> "uuid", message |-> << "processed" >>]] }

RelayAt(f, i, pc) == i \in 1..Len(relays[f]) /\ relays[f][i].pc = pc

SetRelay(f, i, r) == relays' = [relays EXCEPT ![f][i] = r]

\* the request arrives; the configuration check
relayReceive(f, i) ==
    /\ RelayAt(f, i, "sent")
    /\ IF configured
       THEN SetRelay(f, i, [relays[f][i] EXCEPT !.pc = "awaitMeta",
                                                !.steps = << "metadata" >>])
       ELSE SetRelay(f, i, [relays[f][i] EXCEPT !.pc = "done",
                                                !.res = Some(ConfigError),
                                                !.responses = @ + 1])
    /\ UNCHANGED << navVars, upVars, staging, envVars, listVars >>

\* (faulty variant: the temporary file is created as soon as the name is
\* known, before the download)
relayMetaOk_StagesFirst(f, i) ==
    /\ RelayAt(f, i, "awaitMeta")
    /\ staging' = WriteFile(tempFilePath(UserId, fileName[f]), f)
    /\ SetRelay(f, i, [relays[f][i] EXCEPT
           !.pc = "awaitDownload",
           !.filename = Some(fileName[f]),
           !.staged = TRUE,
           !.steps = @ \o << "stage", "download" >>])
    /\ UNCHANGED << navVars, upVars, envVars, listVars >>


\* fileResponse.ok: fileData read, the download is issued
relayMetaOk(f, i) ==
    /\ RelayAt(f, i, "awaitMeta")
    /\ SetRelay(f, i, [relays[f][i] EXCEPT !.pc = "awaitDownload",
                                             !.filename = Some(fileName[f]),
                                             !.steps = Append(@, "download")])
    /\ UNCHANGED << navVars, upVars, staging, envVars, listVars >>

\* the metadata fetch rejects or answers non-2xx: throw, catch
relayMetaFail(f, i, msg) ==
    /\ RelayAt(f, i, "awaitMeta")
    /\ SetRelay(f, i, [relays[f][i] EXCEPT !.pc = "done",
                                             !.res = Some(CatchError(msg)),
                                             !.responses = @ + 1])
    /\ UNCHANGED << navVars, upVars, staging, envVars, listVars >>

\* downloadResponse.ok: the buffer is written to tempFilePath, req.file and
\* res.json are set up and processFileUpload is called
relayDownloadOk(f, i) ==
    /\ RelayAt(f, i, "awaitDownload")
    /\ staging' = WriteFile(tempFilePath(UserId, relays[f][i].filename[1]), f)
    /\ SetRelay(f, i, [relays[f][i] EXCEPT
           !.pc = "awaitIngest",
           !.staged = TRUE,
           !.steps = @ \o << "stage", "ingest" >>])
    /\ UNCHANGED << navVars, upVars, envVars, listVars >>

\* (faulty variant: the file is created before the download is checked)
relayDownloadFail_Staged(f, i, msg) ==
    /\ RelayAt(f, i, "awaitDownload")
    /\ staging' = WriteFile(tempFilePath(UserId, relays[f][i].filename[1]), f)
    /\ SetRelay(f, i, [relays[f][i] EXCEPT !.pc = "done",
                                             !.res = Some(CatchError(msg)),
                                             !.responses = @ + 1])
    /\ UNCHANGED << navVars, upVars, envVars, listVars >>

\* the download rejects or answers non-2xx: throw, catch
relayDownloadFail(f, i, msg) ==
    /\ RelayAt(f, i, "awaitDownload")
    /\ SetRelay(f, i, [relays[f][i] EXCEPT !.pc = "done",
                                             !.res = Some(CatchError(msg)),
                                             !.responses = @ + 1])
    /\ UNCHANGED << navVars, upVars, staging, envVars, listVars >>

\* (faulty variant: the clean-up is not in a try block of its own, and it
\* comes before the answer)
relayIngestOk_CleanupUnguarded(f, i, data, unlinkThrows) ==
    /\ RelayAt(f, i, "awaitIngest")
    /\ LET path == tempFilePath(UserId, relays[f][i].filename[1])
           deleted == Exists(path) /\ ~unlinkThrows
       IN  /\ staging' = IF deleted THEN Unlink(path) ELSE staging
           /\ SetRelay(f, i, [relays[f][i] EXCEPT
                  !.pc = "done",
                  !.ingested = Some(data),
                  !.res = IF deleted
                          THEN Some(Enhanced(data, f))
                          ELSE Some(Enhanced(CatchError("unlink failed"), f)),
                  !.cleanup = IF deleted THEN "deleted" ELSE "failed",
                  !.steps = Append(@, "unlink"),
                  !.responses = @ + 1])
    /\ UNCHANGED << navVars, upVars, envVars, listVars >>

\* (faulty variant: the clean-up is not in a try block of its own, so a
\* throw of unlinkSync reaches the catch block, which answers again)
relayIngestOk_AnswersTwice(f, i, data, unlinkThrows) ==
    /\ RelayAt(f, i, "awaitIngest")
    /\ LET path == tempFilePath(UserId, relays[f][i].filename[1])
           deleted == Exists(path) /\ ~unlinkThrows
       IN  /\ staging' = IF deleted THEN Unlink(path) ELSE staging
           /\ SetRelay(f, i, [relays[f][i] EXCEPT
                  !.pc = "done",
                  !.ingested = Some(data),
                  !.res = Some(Enhanced(data, f)),
                  !.cleanup = IF deleted THEN "deleted" ELSE "failed",
                  !.steps = Append(@, "unlink"),
                  !.responses = IF deleted THEN @ + 1 ELSE @ + 2])
    /\ UNCHANGED << navVars, upVars, envVars, listVars >>


\* processFileUpload answers through the overridden res.json and returns;
\* then the clean-up try block: unlinkSync deletes the file, or throws
\* (no such file, or the file system refuses) and the throw is logged
relayIngestOk(f, i, data, unlinkThrows) ==
    /\ RelayAt(f, i, "awaitIngest")
    /\ LET path == tempFilePath(UserId, relays[f][i].filename[1])
           deleted == Exists(path) /\ ~unlinkThrows
       IN  /\ staging' = IF deleted THEN Unlink(path) ELSE staging
           /\ SetRelay(f, i, [relays[f][i] EXCEPT
                  !.pc = "done",
                  !.ingested = Some(data),
                  !.res = Some(Enhanced(data, f)),
                  !.cleanup = IF deleted THEN "deleted" ELSE "failed",
                  !.steps = Append(@, "unlink"),
                  !.responses = @ + 1])
    /\ UNCHANGED << navVars, upVars, envVars, listVars >>

\* processFileUpload throws: the catch block answers, through the
\* overridden res.json; the clean-up try block is skipped
relayIngestRaise(f, i, msg) ==
    /\ RelayAt(f, i, "awaitIngest")
    /\ SetRelay(f, i, [relays[f][i] EXCEPT
           !.pc = "done",
           !.res = Some(Enhanced(CatchError(msg), f)),
           !.responses = @ + 1])
    /\ UNCHANGED << navVars, upVars, staging, envVars, listVars >>

\* The connection fails before the request is delivered or while the
\* response is on its way: the panel's fetch rejects.  (A connection lost
\* while the handler runs, the handler running on without a waiting fetch,
\* is not modelled.)
relayLost(f, i) ==
    /\ RelayAt(f, i, "sent") \/ RelayAt(f, i, "done")
    /\ SetRelay(f, i, [NewRelay EXCEPT !.pc = "lost"])
    /\ UNCHANGED << navVars, upVars, staging, envVars, listVars >>

\* --------------------------------------------------------------------- Next
Navigate ==
    \/ \E c \in CourseIds : handleCourseClick(c)
    \/ \E m \in ModuleIds : handleModuleClick(m)
    \/ handleBackClick

BrowseSettles ==
    \/ \E list \in BrowseCourseLists : fetchCoursesThen(list)
    \/ \E msg \in BrowseFailures("Failed to fetch courses") :
          fetchCoursesCatch(msg)
    \/ \E c \in CourseIds, list \in ModuleLists : fetchModulesThen(c, list)
    \/ \E c \in CourseIds, msg \in BrowseFailures("Failed to fetch modules") :
          fetchModulesCatch(c, msg)
    \/ \E c \in CourseIds, m \in ModuleIds, list \in ItemLists :
          fetchModuleItemsThen(c, m, list)
    \/ \E c \in CourseIds, m \in ModuleIds,
          msg \in BrowseFailures("Failed to fetch module items") :
          fetchModuleItemsCatch(c, m, msg)

Upload ==
    \/ \E f \in Files : handleFileUpload(f)
    \/ \E f \in Files : \E i \in 1..Len(relays[f]) : handleFileUploadThen(f, i)
    \/ \E f \in Files : \E i \in 1..Len(relays[f]) : handleFileUploadCatch(f, i)
    \/ \E f \in Files : \E i \in 1..Len(relays[f]) : handleFileUploadThenAdd(f, i)
    \/ \E f \in Files : \E i \in 1..Len(relays[f]) : handleFileUploadFinally(f, i)

Relay ==
    \/ \E f \in Files : \E i \in 1..Len(relays[f]) : relayReceive(f, i)
    \/ \E f \in Files : \E i \in 1..Len(relays[f]) : relayMetaOk(f, i)
    \/ \E f \in Files : \E i \in 1..Len(relays[f]) :
          \E msg \in MetaFailures : relayMetaFail(f, i, msg)
    \/ \E f \in Files : \E i \in 1..Len(relays[f]) : relayDownloadOk(f, i)
    \/ \E f \in Files : \E i \in 1..Len(relays[f]) :
          \E msg \in DownloadFailures : relayDownloadFail(f, i, msg)
    \/ \E f \in Files : \E i \in 1..Len(relays[f]) :
          \E data \in IngestResults, t \in BOOLEAN : relayIngestOk(f, i, data, t)
    \/ \E f \in Files : \E i \in 1..Len(relays[f]) :
          \E msg \in IngestFailures : relayIngestRaise(f, i, msg)
    \/ \E f \in Files : \E i \in 1..Len(relays[f]) : relayLost(f, i)

Next == Navigate \/ BrowseSettles \/ Upload \/ Relay

Spec == Init /\ [][Next]_vars

\* Every kind of step that stays possible is eventually taken: the awaited
\* responses arrive and their continuations run, the server's handlers go
\* on, and the user, too, keeps taking the actions the panel offers.
SpecEager ==
    /\ Spec
    /\ WF_vars(BrowseSettles)
    /\ WF_vars(Relay)
    /\ WF_vars(Upload)
    /\ WF_vars(Navigate)

\* what the server and the transport do to the calls for file f
RelayOf(f) ==
    \E i \in 1..Len(relays[f]) :
        \/ relayReceive(f, i)
        \/ relayMetaOk(f, i)
        \/ \E msg \in MetaFailures : relayMetaFail(f, i, msg)
        \/ relayDownloadOk(f, i)
        \/ \E msg \in DownloadFailures : relayDownloadFail(f, i, msg)
        \/ \E data \in IngestResults, t \in BOOLEAN :
               relayIngestOk(f, i, data, t)
        \/ \E msg \in IngestFailures : relayIngestRaise(f, i, msg)
        \/ relayLost(f, i)

\* what handleFileUpload does after its await, for file f
TailOf(f) ==
    \E i \in 1..Len(relays[f]) :
        \/ handleFileUploadThen(f, i)
        \/ handleFileUploadThenAdd(f, i)
        \/ handleFileUploadFinally(f, i)
        \/ handleFileUploadCatch(f, i)

\* Every request is answered or lost: each awaited call of a handler comes
\* back (with a result or a failure) or the connection fails, and the code
\* after an await that has come back is run.  For each file, a call that
\* can be moved on by the server, the transport or the panel's own code is
\* eventually moved on.  Nothing is assumed about the user.
SpecAnswering ==
    /\ Spec
    /\ \A f \in Files : WF_vars(RelayOf(f) \/ TailOf(f))

\* ------------------------------------------------------------ GET /courses
\* The handler on upstream lists longer than the limit.  The LMS course
\* list is any list up to MaxUpstream long, course i at place i, at most
\* MaxUnavailable of its courses not available; the request may arrive at
\* any of them.
Unavailable(cs) == {i \in 1..Len(cs) : ~IsAvailable(cs[i])}

InitCourses ==
    /\ InitPanel
    /\ canvasApiKey \in BOOLEAN
    /\ canvasBaseUrl \in BOOLEAN
    /\ gets = NoGets
    /\ fileName = [f \in Files |-> "syllabus.pdf"]
    /\ upstream = << >>
    /\ coursesPc = "catalog"
    /\ coursesRes = Null

lmsAddCourse(ws) ==
    /\ coursesPc = "catalog"
    /\ Len(upstream) < MaxUpstream
    /\ ws # "available" => Cardinality(Unavailable(upstream)) < MaxUnavailable
    /\ upstream' = Append(upstream, UpstreamCourse(Len(upstream) + 1, ws))
    /\ UNCHANGED << navVars, upVars, srvVars, envVars, coursesPc, coursesRes,
                    gets >>

\* the configuration check, then the fetch of the LMS course list
getCoursesReceive ==
    /\ coursesPc = "catalog"
    /\ IF configured
       THEN /\ coursesPc' = "awaitUpstream"
            /\ UNCHANGED coursesRes
       ELSE /\ coursesPc' = "done"
            /\ coursesRes' = Some([status |-> 500,
                                   error |-> "Canvas configuration not found"])
    /\ UNCHANGED << navVars, upVars, srvVars, envVars, upstream, gets >>

\* response.ok: res.json(formattedCourses)
getCoursesOk ==
    /\ coursesPc = "awaitUpstream"
    /\ coursesPc' = "done"
    /\ coursesRes' = Some([status |-> 200, body |-> formattedCourses(upstream)])
    /\ UNCHANGED << navVars, upVars, srvVars, envVars, upstream, gets >>

\* the fetch rejects or the LMS answers non-2xx: throw, catch
getCoursesFail ==
    /\ coursesPc = "awaitUpstream"
    /\ coursesPc' = "done"
    /\ coursesRes' = Some([status |-> 500,
                           error |-> "Failed to fetch courses from Canvas LMS"])
    /\ UNCHANGED << navVars, upVars, srvVars, envVars, upstream, gets >>

NextCourses ==
    \/ \E ws \in {"available", "unpublished"} : lmsAddCourse(ws)
    \/ getCoursesReceive
    \/ getCoursesOk
    \/ getCoursesFail

SpecCourses == InitCourses /\ [][NextCourses]_vars

\* ---------------------------------------------------- the server's routes
\* The five routes on requests of any client: one request of each GET
\* route, and download-and-upload requests for the files.
InitServer ==
    /\ InitPanel
    /\ canvasApiKey \in BOOLEAN
    /\ canvasBaseUrl \in BOOLEAN
    /\ fileName \in FileCatalogs
    /\ upstream = << >>
    /\ coursesPc = "catalog"
    /\ coursesRes = Null
    /\ gets = [e \in GetEndpoints |-> [pc |-> "sent", res |-> Null]]

\* the error texts of the catch blocks
GetError(e) ==
    CASE e = "modules" -> "Failed to fetch modules from Canvas LMS"
      [] e = "items" -> "Failed to fetch module items from Canvas LMS"
      [] e = "file" -> "Failed to fetch file from Canvas LMS"

\* the configuration check, then the fetch of the LMS URL
getReceive(e) ==
    /\ gets[e].pc = "sent"
    /\ IF configured
       THEN gets' = [gets EXCEPT ![e].pc = "awaitUpstream"]
       ELSE gets' = [gets EXCEPT ![e] = [pc |-> "done",
                                         res |-> Some(ConfigError)]]
    /\ UNCHANGED << navVars, upVars, srvVars, envVars, upstream, coursesPc,
                    coursesRes >>

\* response.ok: the mapped (modules, items) or picked (file) fields
getOk(e) ==
    /\ gets[e].pc = "awaitUpstream"
    /\ gets' = [gets EXCEPT ![e] =
                   [pc |-> "done",
                    res |-> Some([status |-> 200, body |-> [data |-> e]])]]
    /\ UNCHANGED << navVars, upVars, srvVars, envVars, upstream, coursesPc,
                    coursesRes >>

\* the fetch rejects or the LMS answers non-2xx: throw, catch
getFail(e) ==
    /\ gets[e].pc = "awaitUpstream"
    /\ gets' = [gets EXCEPT ![e] =
                   [pc |-> "done",
                    res |-> Some([status |-> 500,
                                  body |-> [error |-> GetError(e)]])]]
    /\ UNCHANGED << navVars, upVars, srvVars, envVars, upstream, coursesPc,
                    coursesRes >>

\* a client posts /files/f/download-and-upload
postRelay(f) ==
    /\ relays[f] = << >>
    /\ relays' = [relays EXCEPT ![f] = << NewRelay >>]
    /\ UNCHANGED << navVars, upVars, staging, envVars, listVars >>

NextServer ==
    \/ getCoursesReceive
    \/ getCoursesOk
    \/ getCoursesFail
    \/ \E e \in GetEndpoints : getReceive(e)
    \/ \E e \in GetEndpoints : getOk(e)
    \/ \E e \in GetEndpoints : getFail(e)
    \/ \E f \in Files : postRelay(f)
    \/ Relay

SpecServer == InitServer /\ [][NextServer]_vars

\* ================================================================= claims
RelayPath(r) == tempFilePath(UserId, r.filename[1])

\* C1: for every content_id at most one download-and-upload call of the
\* panel is awaiting its response at any time, so at most one call for it
\* is in the ingestion step; the upload button of a content_id in
\* uploadingFiles starts nothing.
C1_OneRelayPerContentId ==
    \A f \in Files :
        /\ Len(relays[f]) <= 1
        /\ Cardinality({i \in 1..Len(relays[f]) :
                           relays[f][i].pc = "awaitIngest"}) <= 1
        /\ f \in uploadingFiles => ~ENABLED handleFileUpload(f)

\* the button of file 1 is on screen, disabled, while the one call for
\* file 1 is in the ingestion step
C1_Witness ==
    /\ UploadButtonShown(1)
    /\ 1 \in uploadingFiles
    /\ Len(relays[1]) = 1
    /\ relays[1][1].pc = "awaitIngest"

\* C2: when a download-and-upload call that staged a file returns, whether
\* processFileUpload returned or threw, unlinkSync(tempFilePath) has been
\* called, and unless unlinkSync itself threw the path no longer exists.
C2_StagedFileDeleted ==
    [][\A f \in Files : \A i \in 1..Len(relays[f]) :
         ( /\ relays[f][i].pc = "awaitIngest"
           /\ i \in 1..Len(relays'[f])
           /\ relays'[f][i].pc = "done" )
         => /\ relays'[f][i].cleanup # "none"
            /\ relays'[f][i].cleanup = "deleted"
                 => ~(\E e \in staging' : e.path = RelayPath(relays[f][i]))
      ]_vars

\* C3: two calls that are between staging and clean-up at the same time
\* never have the same tempFilePath, and the file at a call's tempFilePath
\* is there and holds the content that call wrote.
C3_StagingNotShared ==
    \A f \in Files : \A i \in 1..Len(relays[f]) :
        relays[f][i].pc = "awaitIngest" =>
            /\ [path |-> RelayPath(relays[f][i]), content |-> f] \in staging
            /\ \A g \in Files \ {f} : \A j \in 1..Len(relays[g]) :
                   relays[g][j].pc = "awaitIngest" =>
                       RelayPath(relays[g][j]) # RelayPath(relays[f][i])

\* C4: the level is one of courses, modules, items; at modules
\* selectedCourse is not null; at items selectedCourse and selectedModule
\* are not null.
C4_NavigatorInvariant ==
    /\ currentView \in {"courses", "modules", "items"}
    /\ currentView = "modules" => selectedCourse # Null
    /\ currentView = "items" => selectedCourse # Null /\ selectedModule # Null

\* back at the module level after the item level was shown
C4_Witness ==
    /\ currentView = "modules"
    /\ ListShown
    /\ selectedCourse # Null
    /\ selectedModule = Null
    /\ itemsFor # Null

\* the browse request of the present level and selection
CurrentBrowse(url) ==
    \/ /\ url = CoursesUrl
       /\ currentView = "courses"
       /\ selectedCourse = Null
    \/ /\ currentView = "courses"
       /\ selectedCourse # Null
       /\ url = ModulesUrl(selectedCourse[1])
    \/ /\ currentView = "modules"
       /\ selectedCourse # Null
       /\ selectedModule # Null
       /\ url = ItemsUrl(selectedCourse[1], selectedModule[1])

\* C5: every browse request awaiting its response is the one of the present
\* level and selection, so no response of a superseded navigation is
\* applied; at the modules level the module list is the one fetched for
\* selectedCourse, at the items level the item list is the one fetched for
\* (selectedCourse, selectedModule).
C5_NoStaleResponse ==
    /\ \A url \in browse : CurrentBrowse(url)
    /\ currentView = "modules" => modulesFor = selectedCourse
    /\ currentView = "items" =>
           /\ selectedCourse # Null /\ selectedModule # Null
           /\ itemsFor = Some(<< selectedCourse[1], selectedModule[1] >>)
           /\ modulesFor = selectedCourse

\* the items of module 2 are being fetched while items still holds the
\* list fetched for module 1
C5_Witness ==
    /\ browse = {ItemsUrl(1, 2)}
    /\ itemsFor = Some(<< 1, 1 >>)
    /\ items # {}

\* the places of the available courses in a course list
AvailableAt(cs) == {i \in 1..Len(cs) : cs[i].workflow_state = "available"}

\* C6: a 200 answer of GET /courses holds the first 20 available courses of
\* the upstream list and nothing else, in upstream order: it is no longer
\* than 20, as long as there are available courses up to 20, and its j-th
\* course is the j-th available upstream course.
C6_ListCourses ==
    (coursesRes # Null /\ coursesRes[1].status = 200) =>
        LET out == coursesRes[1].body
            avail == AvailableAt(upstream)
        IN  /\ Len(out) <= 20
            /\ Len(out) = Min(Cardinality(avail), 20)
            /\ \A j \in 1..Len(out) :
                   /\ out[j].workflow_state = "available"
                   /\ \E i \in avail :
                          /\ upstream[i].id = out[j].id
                          /\ Cardinality({k \in avail : k <= i}) = j

\* 25 upstream courses, 22 of them available, answered with 20
C6_Witness ==
    /\ coursesRes # Null
    /\ coursesRes[1].status = 200
    /\ Len(upstream) = 25
    /\ Cardinality(AvailableAt(upstream)) = 22
    /\ Len(coursesRes[1].body) = 20

\* C7: handleBackClick at items gives modules with selectedModule null and
\* modules and selectedCourse as they were; at modules it gives courses with
\* selectedCourse null and no modules; at courses it changes nothing.
C7_BackFrame ==
    [][handleBackClick =>
         /\ currentView = "items" =>
                /\ currentView' = "modules"
                /\ selectedModule' = Null
                /\ modules' = modules
                /\ selectedCourse' = selectedCourse
         /\ currentView = "modules" =>
                /\ currentView' = "courses"
                /\ selectedCourse' = Null
                /\ modules' = {}
         /\ currentView = "courses" => UNCHANGED vars
      ]_vars

\* at courses again, coming back from a module list that was not empty
\* (module lists are fetched only after a course was selected; the item
\* level was shown before)
C7_Witness ==
    /\ currentView = "courses"
    /\ selectedCourse = Null
    /\ selectedModule = Null
    /\ modules = {}
    /\ itemsFor # Null
    /\ CoursesUrl \in browse

\* C8: the level starts at courses, and a step that changes it is
\* courses -> modules by fetchModules succeeding, modules -> items by
\* fetchModuleItems succeeding, or items -> modules, modules -> courses by
\* handleBackClick.
C8_OneLevelAtATime ==
    /\ currentView = "courses"
    /\ [][currentView' # currentView =>
            \/ /\ currentView = "courses" /\ currentView' = "modules"
               /\ \E c \in CourseIds, list \in ModuleLists :
                      fetchModulesThen(c, list)
            \/ /\ currentView = "modules" /\ currentView' = "items"
               /\ \E c \in CourseIds, m \in ModuleIds, list \in ItemLists :
                      fetchModuleItemsThen(c, m, list)
            \/ /\ currentView = "items" /\ currentView' = "modules"
               /\ handleBackClick
            \/ /\ currentView = "modules" /\ currentView' = "courses"
               /\ handleBackClick
         ]_vars

\* down to the items and up again to the courses
C8_Witness ==
    /\ currentView = "courses"
    /\ itemsFor # Null
    /\ modulesFor = Null
    /\ ListShown

\* a browse request's catch block ran in this step
BrowseFailed == error' # error

\* C9: a failed browse request sets the error message, which is then shown
\* in place of the list, and leaves the level (and the selection and the
\* lists) as they were; no browse request is issued by the failure, nor
\* ever after while the message is shown.
C9_BrowseFailure ==
    [][ /\ BrowseFailed =>
              /\ error = Null /\ error' # Null
              /\ ~loading' /\ ~ListShown'
              /\ currentView' = currentView
              /\ UNCHANGED << selectedCourse, selectedModule, courses,
                              modules, items >>
              /\ browse' = {}
        /\ error # Null => browse' \subseteq browse
      ]_vars

\* the fetch of a module's items failed: still at the modules level
C9_Witness ==
    /\ error = Some("Failed to fetch module items")
    /\ currentView = "modules"
    /\ selectedModule # Null
    /\ browse = {}
    /\ ~loading

C11_TrackerSetsDisjoint == uploadingFiles \cap uploadedFiles = {}

\* the call of the panel for f, when there is one, and its success tail
\* ending in this step
Call(f) == relays[f][1]
SuccessTailEnds(f) ==
    /\ relays[f] # << >>
    /\ UploadOk(f, 1) \/ Call(f).pc = "finally"
    /\ relays'[f] = << >>

\* C12: when the success tail of a call for f has run, f is in uploadedFiles
\* and not in uploadingFiles; f enters uploadedFiles only in a step from a
\* state where f is in uploadingFiles and its call has resolved with
\* response.ok; and no step removes a member of uploadedFiles.
C12_DoneThroughSuccess ==
    [][\A f \in Files :
         /\ SuccessTailEnds(f) =>
                f \in uploadedFiles' /\ f \notin uploadingFiles'
         /\ (f \notin uploadedFiles /\ f \in uploadedFiles') =>
                f \in uploadingFiles /\ UploadOk(f, 1)
         /\ f \in uploadedFiles => f \in uploadedFiles'
      ]_vars

\* file 1 was uploaded; since then the user went back to the course list,
\* and an upload of file 2 did not succeed
C12_Witness ==
    /\ 1 \in uploadedFiles
    /\ 1 \notin uploadingFiles
    /\ 2 \notin uploadedFiles
    /\ 2 \notin uploadingFiles
    /\ [path |-> tempFilePath(UserId, "syllabus.pdf"), content |-> 2] \in staging
    /\ currentView = "courses"
    /\ ListShown

\* the catch and finally blocks of a failed call for f run in this step
FailureTailEnds(f) ==
    /\ relays[f] # << >>
    /\ RelayFailed(Call(f))
    /\ relays'[f] = << >>

\* the row of file f is on screen
FileRowShown(f) ==
    /\ ListShown
    /\ currentView = "items"
    /\ \E it \in items : it.type = "File" /\ it.content_id = f

\* C13: when a call for f fails (the response is not ok, or the fetch
\* rejects), f is taken out of uploadingFiles and nothing else changes in
\* the two sets: f is in neither, and where its row is on screen the upload
\* button is there and enabled.
C13_FailureReturnsToIdle ==
    [][\A f \in Files :
         FailureTailEnds(f) =>
             /\ f \in uploadingFiles
             /\ uploadingFiles' = uploadingFiles \ {f}
             /\ uploadedFiles' = uploadedFiles
             /\ f \notin uploadedFiles'
             /\ FileRowShown(f)' => UploadButtonEnabled(f)'
      ]_vars

\* the retry: a call for file 1 has just been sent while the staging
\* directory still holds what an earlier call for file 1 wrote, a call that
\* did not succeed
C13_Witness ==
    /\ Len(relays[1]) = 1
    /\ Call(1).pc = "sent"
    /\ 1 \in uploadingFiles
    /\ 1 \notin uploadedFiles
    /\ [path |-> tempFilePath(UserId, "syllabus.pdf"), content |-> 1] \in staging

\* C14: for a member f of uploadedFiles the panel renders no upload button
\* and no step starts a download-and-upload call; the only call for f there
\* can be is the successful one whose finally block has yet to run.
C14_NoRelayOnceDone ==
    \A f \in Files :
        f \in uploadedFiles =>
            /\ ~UploadButtonShown(f)
            /\ ~ENABLED handleFileUpload(f)
            /\ \/ relays[f] = << >>
               \/ Len(relays[f]) = 1 /\ Call(f).pc = "finally"

\* the item list is on screen with the row of file 1, uploaded, and the
\* row of file 2 with its button
C14_Witness ==
    /\ 1 \in uploadedFiles
    /\ FileRowShown(1)
    /\ relays[1] = << >>
    /\ UploadButtonEnabled(2)

\* C15: a call whose metadata fetch or whose download fails is answered
\* 5xx, a failure for the panel, in a step that leaves the staging
\* directory as it is, and it has not written a file nor called
\* processFileUpload; when the panel has handled the answer, or the loss of
\* it, the file is in neither uploadingFiles nor uploadedFiles.
C15_UpstreamFailure ==
    [][\A f \in Files :
         relays[f] # << >> =>
             /\ ( /\ Call(f).pc \in {"awaitMeta", "awaitDownload"}
                  /\ relays'[f] # << >>
                  /\ relays'[f][1].pc = "done" )
                => /\ staging' = staging
                   /\ ~relays'[f][1].staged
                   /\ relays'[f][1].res[1].status >= 500
                   /\ RelayFailed(relays'[f][1])
             /\ ( /\ Call(f).pc = "done"
                  /\ ~Call(f).staged
                  /\ relays'[f] # relays[f] )
                => \/ /\ relays'[f] = << >>
                      /\ f \notin uploadingFiles'
                      /\ f \notin uploadedFiles'
                   \/ /\ relays'[f] # << >>
                      /\ relays'[f][1].pc = "lost"
      ]_vars

\* the download of file 1 has failed, after its metadata was read: the call
\* is answered 500 and nothing was staged
C15_Witness ==
    /\ relays[1] # << >>
    /\ Call(1).pc = "done"
    /\ Call(1).filename # Null
    /\ ~Call(1).staged
    /\ Call(1).res = Some(CatchError(DownloadNotOk))
    /\ staging = {}
    /\ 1 \in uploadingFiles

\* C16: a call whose unlinkSync threw is answered as one whose unlinkSync
\* deleted the file, with the 200 of processFileUpload, which the panel
\* takes as a success; and a call answered with a failure has not had a
\* clean-up that threw.
C16_CleanupKeepsOutcome ==
    \A f \in Files : \A i \in 1..Len(relays[f]) :
        LET r == relays[f][i]
        IN  /\ r.cleanup = "failed" =>
                   /\ r.res = Some(Enhanced(r.ingested[1], f))
                   /\ r.pc = "done" => UploadOk(f, i) /\ ~RelayFailed(r)
            /\ (r.res # Null /\ r.res[1].status >= 500) => r.cleanup = "none"

\* unlinkSync threw, the staged file is still there, and the call is
\* answered 200
C16_Witness ==
    /\ relays[1] # << >>
    /\ Call(1).pc = "done"
    /\ Call(1).cleanup = "failed"
    /\ Call(1).res[1].status = 200
    /\ Exists(RelayPath(Call(1)))

\* the calls that have been answered (a file has one call at most, C1)
Answered == { << f, i >> \in Files \X {1} :
                 i \in 1..Len(relays[f]) /\ relays[f][i].res # Null }
Fields(resp) == DOMAIN resp.body

\* C17: a call that fails is answered 5xx with an error field, perhaps a
\* details field, and no other field; an answer with an originalFile or a
\* message field is a 200.
C17_FailureBody ==
    \A c \in Answered :
        LET r == relays[c[1]][c[2]]
            resp == r.res[1]
        IN  /\ r.ingested = Null => resp.status >= 500
            /\ resp.status >= 500 =>
                   /\ "error" \in Fields(resp)
                   /\ Fields(resp) \subseteq {"error", "details"}
            /\ Fields(resp) \cap {"originalFile", "message"} # {} =>
                   resp.status = 200

\* the calls answered 200, with what processFileUpload gave and what the
\* caller got
Succeeded == { c \in Answered : relays[c[1]][c[2]].res[1].status = 200 }
Data(c) == relays[c[1]][c[2]].ingested[1].body
Out(c) == relays[c[1]][c[2]].res[1].body
MetadataRead(c) ==
    [id |-> c[1], filename |-> relays[c[1]][c[2]].filename[1],
     display_name |-> "Syllabus"]

\* C18 as stated: the 200 answer has every field of processFileUpload's
\* result with its value, and two more fields, originalFile with the id,
\* filename and display_name of the metadata read for the requested file,
\* and message.
C18_ResultPassedThrough ==
    \A c \in Succeeded :
        /\ \A k \in DOMAIN Data(c) : Out(c)[k] = Data(c)[k]
        /\ DOMAIN Out(c) = DOMAIN Data(c) \cup {"originalFile", "message"}
        /\ Out(c).originalFile = MetadataRead(c)
        /\ Out(c).message = << "uploaded successfully", "Syllabus" >>

\* C18, amended: the 200 answer has the fields of processFileUpload's
\* result and the fields originalFile and message; originalFile has the id,
\* filename and display_name of the metadata read for the requested file,
\* message is the handler's success message, also where the result has
\* fields of these names, and every other field has the result's value.
C18_ResultAugmented ==
    \A c \in Succeeded :
        /\ \A k \in DOMAIN Data(c) \ {"originalFile", "message"} :
               Out(c)[k] = Data(c)[k]
        /\ DOMAIN Out(c) = DOMAIN Data(c) \cup {"originalFile", "message"}
        /\ Out(c).originalFile = MetadataRead(c)
        /\ Out(c).message = << "uploaded successfully", "Syllabus" >>

\* the call for file 2 is answered 200; processFileUpload's result had a
\* message of its own
C18_Witness ==
    /\ << 2, 1 >> \in Succeeded
    /\ "message" \in DOMAIN Data(<< 2, 1 >>)
    /\ "file_id" \in DOMAIN Out(<< 2, 1 >>)

\* the step of the relay that failed, for a call answered by the catch block
Origin(r) ==
    IF r.filename = Null THEN "UpstreamError"
    ELSE IF ~r.staged THEN "DownloadError"
    ELSE "IngestionError"
Caught == { c \in Answered :
               /\ relays[c[1]][c[2]].res[1].status >= 500
               /\ relays[c[1]][c[2]].res[1] # ConfigError }

\* C19: the answer of a failed call tells which step failed: two calls
\* that failed in different steps are never answered alike.
C19_ErrorKindReported ==
    \A c, d \in Caught :
        LET r == relays[c[1]][c[2]]
            q == relays[d[1]][d[2]]
        IN  r.res[1] = q.res[1] => Origin(r) = Origin(q)

\* the LMS has been sent a request by a handler that has not come back
LmsCallAwaited ==
    \/ coursesPc = "awaitUpstream"
    \/ \E e \in GetEndpoints : gets[e].pc = "awaitUpstream"
    \/ \E f \in Files : \E i \in 1..Len(relays[f]) :
           relays[f][i].pc \in {"awaitMeta", "awaitDownload", "awaitIngest"}

\* C20: with CANVAS_API_KEY or CANVAS_BASE_URL unset no handler of the
\* five routes ever awaits the LMS, nothing is ever staged, and every
\* answer given is a 5xx.
C20_UnconfiguredFailsFirst ==
    (~canvasApiKey \/ ~canvasBaseUrl) =>
        /\ ~LmsCallAwaited
        /\ staging = {}
        /\ coursesRes # Null => coursesRes[1].status >= 500
        /\ \A e \in GetEndpoints :
               gets[e].res # Null => gets[e].res[1].status >= 500
        /\ \A f \in Files : \A i \in 1..Len(relays[f]) :
               /\ ~relays[f][i].staged
               /\ relays[f][i].res # Null => relays[f][i].res[1].status >= 500

\* the key is set and the base URL is not: every route has answered
C20_Witness ==
    /\ canvasApiKey
    /\ ~canvasBaseUrl
    /\ coursesPc = "done"
    /\ \A e \in GetEndpoints : gets[e].pc = "done"
    /\ \A f \in Files : relays[f] # << >> /\ Call(f).res = Some(ConfigError)

\* how far a call has come: a handler only ever moves forward
Rank(pc) ==
    CASE pc = "sent" -> 0
      [] pc = "awaitMeta" -> 1
      [] pc = "awaitDownload" -> 2
      [] pc = "awaitIngest" -> 3
      [] pc = "done" -> 4
      [] pc = "lost" -> 5
      [] pc = "finally" -> 5

\* the step is a click of the user
UserStep ==
    \/ \E c \in CourseIds : handleCourseClick(c)
    \/ \E m \in ModuleIds : handleModuleClick(m)
    \/ handleBackClick
    \/ \E f \in Files : handleFileUpload(f)

\* no call is named twice in s
NoRepeat(s) == \A j, k \in 1..Len(s) : s[j] = s[k] => j = k

\* C21: nothing is retried.  A browse request comes into being only in a
\* click of the user (the first one at the mount), one per click; a step
\* that is no click and changes what the panel shows has settled one browse
\* request and leaves none behind that was not there.  A call of the relay
\* route is added only by a click on the file's upload button; a call, once
\* sent, only moves forward until the panel has dealt with it, and its
\* handler makes no upstream call twice.
C21_NoAutomaticRetry ==
    [][/\ ~(browse' \subseteq browse) =>
              UserStep /\ Cardinality(browse' \ browse) = 1
       /\ (<< courses, modules, items, loading, error >>' #
               << courses, modules, items, loading, error >> /\ ~UserStep) =>
              browse' \subseteq browse /\ browse' # browse
       /\ \A f \in Files :
              /\ Len(relays'[f]) > Len(relays[f]) =>
                     handleFileUpload(f) /\ Len(relays'[f]) = Len(relays[f]) + 1
              /\ (relays[f] # << >> /\ relays'[f] # << >>
                      /\ relays'[f] # relays[f]) =>
                     Rank(Call(f).pc') > Rank(Call(f).pc)
              /\ \A i \in 1..Len(relays'[f]) : NoRepeat(relays'[f][i].steps)
      ]_vars

\* a browse request has failed and a relay call has been answered with a
\* failure after one metadata fetch: nothing is outstanding for either
C21_Witness ==
    /\ error # Null
    /\ browse = {}
    /\ \E f \in Files :
           /\ relays[f] # << >>
           /\ Call(f).pc = "done"
           /\ Call(f).res[1].status = 500
           /\ Call(f).steps = << "metadata" >>


\* a call for f has been sent and the panel has not finished with its
\* outcome (then or catch, and finally)
Outstanding(f) == relays[f] # << >>

\* C22: f is in uploadingFiles exactly while a call for f is outstanding.
C22_SpinnerTracksRelay ==
    \A f \in Files : f \in uploadingFiles <=> Outstanding(f)

\* file 1 is in flight, its handler waiting for the pipeline, while file 2
\* has been through a whole call and is in flight no more
C22_Witness ==
    /\ 1 \in uploadingFiles
    /\ Outstanding(1)
    /\ Call(1).pc = "awaitIngest"
    /\ 2 \in uploadedFiles
    /\ 2 \notin uploadingFiles
    /\ ~Outstanding(2)


\* call x is in s, and call y is in s before it
After(s, x, y) ==
    \A k \in 1..Len(s) : s[k] = x => \E j \in 1..(k - 1) : s[j] = y

Made(s, x) == \E k \in 1..Len(s) : s[k] = x

\* C23: in every call of the relay route the handler's calls come in the
\* order of their dependencies and none comes twice: the download after the
\* metadata fetch, and with the metadata read; writeFileSync after the
\* download, which is then no longer awaited; processFileUpload after
\* writeFileSync; unlinkSync after processFileUpload, which has then
\* returned.
C23_StepsInOrder ==
    \A f \in Files : \A i \in 1..Len(relays[f]) :
        LET r == relays[f][i]
            s == r.steps
        IN  /\ NoRepeat(s)
            /\ After(s, "download", "metadata")
            /\ Made(s, "download") => r.filename # Null
            /\ After(s, "stage", "download")
            /\ Made(s, "stage") => r.pc \in {"awaitIngest", "done"}
            /\ r.staged <=> Made(s, "stage")
            /\ After(s, "ingest", "stage")
            /\ After(s, "unlink", "ingest")
            /\ Made(s, "unlink") => r.ingested # Null /\ r.pc = "done"
            /\ r.cleanup # "none" <=> Made(s, "unlink")

\* a call that went through all five steps and deleted its file
C23_Witness ==
    \E f \in Files :
        /\ relays[f] # << >>
        /\ Call(f).steps =
               << "metadata", "download", "stage", "ingest", "unlink" >>
        /\ Call(f).cleanup = "deleted"
        /\ Call(f).res[1].status = 200


\* C24: under SpecAnswering every file that is in uploadingFiles is
\* eventually out of it again (marked uploaded by the then part, or back
\* to idle by the catch part).
C24_SpinnerEnds ==
    \A f \in Files : (f \in uploadingFiles) ~> (f \notin uploadingFiles)

\* file 1 went in and came out as uploaded, file 2 is in, its connection
\* has failed and the catch part has not run yet
C24_Witness ==
    /\ 1 \in uploadedFiles
    /\ 1 \notin uploadingFiles
    /\ 2 \in uploadingFiles
    /\ Outstanding(2)
    /\ Call(2).pc = "lost"


\* C25: at most one browse request is awaited at any time, loading is TRUE
\* exactly while one is, and while it is the panel offers no click that
\* navigates (no course, no module, no back control).
C25_OneBrowseAtATime ==
    /\ Cardinality(browse) <= 1
    /\ loading <=> browse # {}
    /\ loading => ~ENABLED Navigate

\* the items of a module are being fetched: the panel is still at the
\* modules level, the module list in its state, and shows the loading view
C25_Witness ==
    /\ loading
    /\ ~ListShown
    /\ currentView = "modules"
    /\ selectedCourse # Null
    /\ selectedModule # Null
    /\ browse = {ItemsUrl(selectedCourse[1], selectedModule[1])}
    /\ modules # {}


\* what the navigator holds: level, selections, lists, loading, error
navState ==
    << currentView, selectedCourse, selectedModule, courses, modules, items,
       loading, error >>

\* C26: a step that sends a relay call, moves it on or ends it (any step
\* that changes relays, staging or one of the two upload sets) leaves the
\* navigator's state and its awaited browse request as they are; a step
\* that changes the navigator's state or its browse request (a click on a
\* course, a module or Back, a browse response) leaves the two upload sets
\* and the relay calls as they are.  A call that ends takes its file out of
\* uploadingFiles at whatever level the panel then is.
C26_NavigationAndUploadApart ==
    [][/\ (upVars' # upVars \/ srvVars' # srvVars) =>
              navState' = navState /\ browse' = browse
       /\ (navState' # navState \/ browse' # browse) =>
              upVars' = upVars /\ srvVars' = srvVars
       /\ \A f \in Files :
              (Outstanding(f) /\ ~Outstanding(f)') =>
                  /\ f \notin uploadingFiles'
                  /\ RelayFailed(Call(f)) => f \notin uploadedFiles'
                  /\ ~RelayFailed(Call(f)) => f \in uploadedFiles'
      ]_vars

\* the user has gone back to the courses level while the call for file 1
\* was on its way; the call has been answered with a success and the then
\* part is about to run
C26_Witness ==
    /\ currentView = "courses"
    /\ ~loading
    /\ 1 \in uploadingFiles
    /\ Outstanding(1)
    /\ UploadOk(1, 1)
    /\ 1 \notin uploadedFiles


\* C27: a handler of the relay route that is still at work has sent no
\* response, and one that has come to its end has sent exactly one, on
\* every path: without configuration, after a failed metadata fetch, after
\* a failed download, after processFileUpload has thrown, and after
\* processFileUpload has answered (whether or not unlinkSync then throws).
C27_ExactlyOneResponse ==
    \A f \in Files : \A i \in 1..Len(relays[f]) :
        LET r == relays[f][i]
        IN  /\ r.responses <= 1
            /\ r.pc \in {"sent", "awaitMeta", "awaitDownload", "awaitIngest"}
                   => r.responses = 0 /\ r.res = Null
            /\ r.pc = "done" => r.responses = 1 /\ r.res # Null

\* the call for file 1 was answered by processFileUpload and unlinkSync
\* threw afterwards; the call for file 2 was answered by the catch block
\* after processFileUpload threw
C27_Witness ==
    /\ relays[1] # << >>
    /\ Call(1).pc = "done"
    /\ Call(1).ingested # Null
    /\ Call(1).cleanup = "failed"
    /\ Call(1).responses = 1
    /\ relays[2] # << >>
    /\ Call(2).pc = "done"
    /\ Made(Call(2).steps, "ingest")
    /\ Call(2).ingested = Null
    /\ Call(2).responses = 1


====
